---- MODULE Spec2Model ----
(***************************************************************************)
(* grep-docx: a grep-like search over .docx documents.                     *)
(*                                                                         *)
(* The model follows src/grep-docx.py: main() resolves the input paths to  *)
(* a candidate list, process_file()/search_file() scan one candidate at a  *)
(* time and feed the aggregate, print_results() renders the aggregate and  *)
(* decides the exit code, supports_hyperlink() is the terminal heuristic.  *)
(*                                                                         *)
(* The document reader (python-docx), the regular-expression engine and    *)
(* the file system are the environment: a document is the sequence of its  *)
(* paragraphs, a paragraph is the number of match spans the pattern has in *)
(* it, and every read of a document may fail at open or at any paragraph.  *)
(***************************************************************************)
EXTENDS Integers, Sequences, FiniteSets, TLC

VARIABLES
    args,        \* argparse.Namespace: the flags, and paths (main mutates paths and hyperlink)
    stdin,       \* the lines of standard input, read when "-" is among the paths
    env,         \* os.environ and sys.stdout.isatty(), read by supports_hyperlink
    pc,          \* position in main: "start", "enumerate", "scan", "done"
    pi,          \* number of entries of args.paths already resolved (main, line 114)
    file_list,   \* main's file_list, the candidates in enumeration order
    idx,         \* number of candidates already handed to process_file (main, line 137)
    results,     \* the aggregate: matches, match_count, matched_files, unmatched_files
    stdout,      \* what print() has written, in order
    log,         \* what logging.error has emitted, in order
    exit_code,   \* the process exit status, -1 while the process runs
    last_scan,   \* history: the latest search_file call, <<>> before the first
    failures,    \* history: the number of reads that failed
    hits,        \* history: the number of search_file calls that returned matched
    twin,        \* the same run on the same inputs with no_messages negated
    fmt          \* one call of format_matched_paragraph: its arguments and what it returned

vars == <<args, stdin, env, pc, pi, file_list, idx, results, stdout, log, exit_code,
          last_scan, failures, hits, twin, fmt>>

(***************************************************************************)
(* Bounds of the model.                                                    *)
(***************************************************************************)
MaxPaths == 2       \* command-line paths per run
MaxFailures == 1    \* reads that fail per run

(***************************************************************************)
(* Strings, as Python's str methods compute them.                          *)
(***************************************************************************)
RECURSIVE SeqSum(_)
SeqSum(s) == IF s = <<>> THEN 0 ELSE Head(s) + SeqSum(Tail(s))

CharAt(s, i) == SubSeq(s, i, i)

StartsWith(s, p) == Len(s) >= Len(p) /\ SubSeq(s, 1, Len(p)) = p

EndsWith(s, p) == Len(s) >= Len(p) /\ SubSeq(s, Len(s) - Len(p) + 1, Len(s)) = p

Contains(s, p) == \E i \in 1..(Len(s) - Len(p) + 1) : SubSeq(s, i, i + Len(p) - 1) = p

\* str.lower() on the letters A-Z; every other character is kept
LowerOf ==
    "A" :> "a" @@ "B" :> "b" @@ "C" :> "c" @@ "D" :> "d" @@ "E" :> "e" @@ "F" :> "f" @@
    "G" :> "g" @@ "H" :> "h" @@ "I" :> "i" @@ "J" :> "j" @@ "K" :> "k" @@ "L" :> "l" @@
    "M" :> "m" @@ "N" :> "n" @@ "O" :> "o" @@ "P" :> "p" @@ "Q" :> "q" @@ "R" :> "r" @@
    "S" :> "s" @@ "T" :> "t" @@ "U" :> "u" @@ "V" :> "v" @@ "W" :> "w" @@ "X" :> "x" @@
    "Y" :> "y" @@ "Z" :> "z"

LowerChar(c) == IF c \in DOMAIN LowerOf THEN LowerOf[c] ELSE c

RECURSIVE Lower(_)
Lower(s) == IF s = "" THEN "" ELSE LowerChar(CharAt(s, 1)) \o Lower(Tail(s))

IsSpace(c) == c \in {" ", "\t", "\n", "\r"}

RECURSIVE LStrip(_)
LStrip(s) == IF s # "" /\ IsSpace(CharAt(s, 1)) THEN LStrip(Tail(s)) ELSE s

RECURSIVE RStrip(_)
RStrip(s) ==
    IF s # "" /\ IsSpace(CharAt(s, Len(s))) THEN RStrip(SubSeq(s, 1, Len(s) - 1)) ELSE s

Strip(s) == RStrip(LStrip(s))

IsDigit(c) == \E k \in 1..10 : CharAt("0123456789", k) = c

DigitValue(c) == (CHOOSE k \in 1..10 : CharAt("0123456789", k) = c) - 1

RECURSIVE KeepDigits(_)
KeepDigits(s) ==
    IF s = "" THEN ""
    ELSE (IF IsDigit(CharAt(s, 1)) THEN CharAt(s, 1) ELSE "") \o KeepDigits(Tail(s))

RECURSIVE DigitsValue(_, _)
DigitsValue(s, acc) ==
    IF s = "" THEN acc ELSE DigitsValue(Tail(s), 10 * acc + DigitValue(CharAt(s, 1)))

AllDigits(s) == s # "" /\ \A i \in 1..Len(s) : IsDigit(CharAt(s, i))

\* int(s): surrounding whitespace and one sign are accepted, then decimal digits
\* only; anything else raises ValueError (parses = FALSE).
IntBody(s) ==
    LET t == Strip(s)
    IN IF t # "" /\ CharAt(t, 1) \in {"+", "-"} THEN Tail(t) ELSE t

IntParses(s) == AllDigits(IntBody(s))

IntValue(s) ==
    LET t == Strip(s)
        v == DigitsValue(IntBody(s), 0)
    IN IF t # "" /\ CharAt(t, 1) = "-" THEN 0 - v ELSE v

\* os.path.basename: what follows the last "/"
RECURSIVE Basename(_)
Basename(p) ==
    IF \E i \in 1..Len(p) : CharAt(p, i) = "/"
    THEN Basename(SubSeq(p, (CHOOSE i \in 1..Len(p) : CharAt(p, i) = "/") + 1, Len(p)))
    ELSE p

\* os.path.join(root, name)
PathJoin(root, name) == root \o "/" \o name

(***************************************************************************)
(* The file system the runs see.                                           *)
(*   d/            a.docx  b.docx  ~$a.docx  n.txt  sub/                   *)
(*   d/sub/        c.DOCX                                                  *)
(*   dangling.docx a symbolic link whose target is gone                    *)
(***************************************************************************)
Dirs == {"d", "d/sub"}

\* the non-directory entries of a directory, in listing order
DirFiles(d) ==
    CASE d = "d" -> <<"a.docx", "b.docx", "~$a.docx", "n.txt">>
      [] d = "d/sub" -> <<"c.DOCX">>
      [] OTHER -> <<>>

\* the sub-directories of a directory, in listing order
DirSubdirs(d) ==
    CASE d = "d" -> <<"sub">>
      [] OTHER -> <<>>

RegularFiles == {"d/a.docx", "d/b.docx", "d/~$a.docx", "d/n.txt", "d/sub/c.DOCX"}

BrokenLinks == {"dangling.docx"}

IsFile(p) == p \in RegularFiles

IsDir(p) == p \in Dirs

\* os.path.exists follows symbolic links: a broken link does not exist
Exists(p) == IsFile(p) \/ IsDir(p)

\* os.path.lexists does not follow them
LExists(p) == Exists(p) \/ p \in BrokenLinks

\* The paragraphs python-docx yields for a document, each as the number of
\* spans of the pattern in its text ("The cat sat", "No match here", "cat cat").
Paragraphs(p) ==
    CASE p = "d/a.docx" -> <<1, 0, 2>>
      [] p = "d/b.docx" -> <<0, 0>>
      [] p = "d/sub/c.DOCX" -> <<0, 1>>
      [] OTHER -> <<>>

\* regex.search(para_text): a paragraph matches when the pattern has a span in it
regex_search(para) == para > 0

(***************************************************************************)
(* glob.glob(path)                                                         *)
(***************************************************************************)
HasMagic(p) == \E i \in 1..Len(p) : CharAt(p, i) \in {"*", "?", "["}

\* A pattern is a prefix followed by "*", over the entries of directory d (the
\* one directory the input patterns name); matches come in listing order.
GlobPrefix(p) == SubSeq(p, 1, (CHOOSE i \in 1..Len(p) : CharAt(p, i) = "*") - 1)

RECURSIVE GlobDir(_, _, _)
GlobDir(dir, names, prefix) ==
    IF names = <<>> THEN <<>>
    ELSE (IF StartsWith(PathJoin(dir, Head(names)), prefix)
          THEN <<PathJoin(dir, Head(names))>> ELSE <<>>)
         \o GlobDir(dir, Tail(names), prefix)

glob(p) ==
    IF HasMagic(p)
    THEN GlobDir("d", DirFiles("d") \o DirSubdirs("d"), GlobPrefix(p))
    ELSE IF LExists(p) THEN <<p>> ELSE <<>>

(***************************************************************************)
(* get_file_list(path, recursive)                                          *)
(***************************************************************************)
Eligible(name) ==
    LET low == Lower(name) IN EndsWith(low, ".docx") /\ ~StartsWith(low, "~$")

RECURSIVE EligibleIn(_, _)
EligibleIn(root, files) ==
    IF files = <<>> THEN <<>>
    ELSE (IF Eligible(Head(files)) THEN <<PathJoin(root, Head(files))>> ELSE <<>>)
         \o EligibleIn(root, Tail(files))

\* os.walk(path), top-down: the directory itself, then each sub-directory's walk
RECURSIVE Walk(_)
RECURSIVE WalkAll(_, _)
Walk(root) == <<root>> \o WalkAll(root, DirSubdirs(root))
WalkAll(root, subs) ==
    IF subs = <<>> THEN <<>>
    ELSE Walk(PathJoin(root, Head(subs))) \o WalkAll(root, Tail(subs))

\* lines 195-200 with the break of line 200 taken whatever the recursive flag
WalkFiles_break_always(roots, recursive) ==
    IF roots = <<>> THEN <<>>
    ELSE EligibleIn(Head(roots), DirFiles(Head(roots)))

RECURSIVE WalkFiles(_, _)
WalkFiles(roots, recursive) ==
    IF roots = <<>> THEN <<>>
    ELSE EligibleIn(Head(roots), DirFiles(Head(roots)))
         \o (IF recursive THEN WalkFiles(Tail(roots), recursive) ELSE <<>>)

get_file_list(path, recursive) ==
    IF IsFile(path)
    THEN (IF EndsWith(Lower(path), ".docx") /\ ~StartsWith(Lower(Basename(path)), "~$")
          THEN <<path>> ELSE <<>>)
    ELSE IF IsDir(path) THEN WalkFiles(Walk(path), recursive)
    ELSE <<>>

(***************************************************************************)
(* supports_hyperlink()                                                    *)
(* An environment variable is <<>> when unset and <<value>> when set.      *)
(***************************************************************************)
IsSet(v) == v # <<>>

\* os.environ.get(name, default)
EnvGet(v, default) == IF v = <<>> THEN default ELSE v[1]

\* lines 453-468: None = no verdict, the chain goes on
VteVerdict(e) ==
    LET vte == EnvGet(e.VTE_VERSION, "")
    IN IF vte = "" THEN "none"
       ELSE IF ~IntParses(vte) THEN "false"
       ELSE IF IntValue(vte) >= 5000 THEN "true"
       ELSE "none"

TermPrograms == {"iTerm.app", "WezTerm", "Hyper", "terminology", "vscode", "vscode-insiders"}

TermNames == {"xterm-kitty", "kitty", "alacritty", "alacritty-direct", "konsole"}

ColortermPositive(e) ==
    LET colorterm == Strip(Lower(EnvGet(e.COLORTERM, "")))
    IN /\ colorterm # ""
       /\ \/ Contains(colorterm, "truecolor")
          \/ Contains(colorterm, "24bit")
          \/ colorterm = "xfce4-terminal"

\* supports_hyperlink without the isatty test of lines 429-430
supports_hyperlink_no_tty_test(e) ==
    IF IsSet(e.DOMTERM) THEN TRUE
    ELSE IF IsSet(e.WT_SESSION) THEN TRUE
    ELSE IF IsSet(e.KONSOLE_VERSION) THEN TRUE
    ELSE IF VteVerdict(e) # "none" THEN VteVerdict(e) = "true"
    ELSE IF Strip(EnvGet(e.TERM_PROGRAM, "")) \in TermPrograms THEN TRUE
    ELSE IF Strip(EnvGet(e.TERM, "")) \in TermNames THEN TRUE
    ELSE ColortermPositive(e)

supports_hyperlink(e) ==
    IF ~e.isatty THEN FALSE
    ELSE IF IsSet(e.DOMTERM) THEN TRUE
    ELSE IF IsSet(e.WT_SESSION) THEN TRUE
    ELSE IF IsSet(e.KONSOLE_VERSION) THEN TRUE
    ELSE IF VteVerdict(e) # "none" THEN VteVerdict(e) = "true"
    ELSE IF Strip(EnvGet(e.TERM_PROGRAM, "")) \in TermPrograms THEN TRUE
    ELSE IF Strip(EnvGet(e.TERM, "")) \in TermNames THEN TRUE
    ELSE ColortermPositive(e)

(***************************************************************************)
(* format_matched_paragraph: the rendered line of one matching paragraph.  *)
(* para_index is enumerate()'s 0-based index; the label printed is 1-based.*)
(***************************************************************************)
format_matched_paragraph(file_path, para, a, para_index) ==
    [kind |-> "match", file |-> file_path, label |-> para_index + 1,
     link |-> a.hyperlink, spans |-> para]

(***************************************************************************)
(* The text of a rendered line.  A text is a sequence of characters, each  *)
(* a one-character string; ESC is the byte \033 that opens an escape       *)
(* sequence.  The pattern is a literal string, the sample paragraphs hold  *)
(* no tab, and the sample paths need no percent-encoding.                  *)
(***************************************************************************)
ESC == "ESC"

\* a str as the sequence of its characters
Chars(s) == [i \in 1..Len(s) |-> SubSeq(s, i, i)]

RECURSIVE Join(_)
Join(parts) == IF parts = <<>> THEN <<>> ELSE Head(parts) \o Join(Tail(parts))

\* "\n".join(lines)
RECURSIVE JoinLines(_)
JoinLines(lines) ==
    IF lines = <<>> THEN <<>>
    ELSE IF Len(lines) = 1 THEN lines[1]
    ELSE lines[1] \o <<"\n">> \o JoinLines(Tail(lines))

\* TextWrapper._munge_whitespace: every whitespace character becomes a space
munge_whitespace(text) == [i \in 1..Len(text) |-> IF IsSpace(text[i]) THEN " " ELSE text[i]]

\* TextWrapper._split with break_on_hyphens=False: the maximal runs of spaces
\* and of other characters, in order
RECURSIVE split_chunks(_, _, _)
split_chunks(text, cur, acc) ==
    IF text = <<>> THEN (IF cur = <<>> THEN acc ELSE Append(acc, cur))
    ELSE IF cur = <<>> \/ ((Head(text) = " ") <=> (cur[1] = " "))
    THEN split_chunks(Tail(text), Append(cur, Head(text)), acc)
    ELSE split_chunks(Tail(text), <<Head(text)>>, Append(acc, cur))

\* chunk.strip() == ''
IsBlank(chunk) == \A i \in 1..Len(chunk) : chunk[i] = " "

\* the number of leading chunks whose lengths sum to at most width
RECURSIVE FitCount(_, _)
FitCount(chunks, width) ==
    IF chunks # <<>> /\ Len(Head(chunks)) <= width
    THEN 1 + FitCount(Tail(chunks), width - Len(Head(chunks)))
    ELSE 0

\* TextWrapper._wrap_chunks with drop_whitespace and break_long_words (the defaults)
RECURSIVE wrap_chunks(_, _, _, _)
wrap_chunks(chunks, width, indent, lines) ==
    IF chunks = <<>> THEN lines
    ELSE LET w == width - Len(indent)
             cs == IF IsBlank(Head(chunks)) /\ lines # <<>> THEN Tail(chunks) ELSE chunks
             n == FitCount(cs, w)
             cur_line == SubSeq(cs, 1, n)
             rest == SubSeq(cs, n + 1, Len(cs))
             too_long == rest # <<>> /\ Len(Head(rest)) > w
             space_left == IF w < 1 THEN 1 ELSE w - Len(Join(cur_line))
             cur_long == IF too_long
                         THEN Append(cur_line, SubSeq(Head(rest), 1, space_left))
                         ELSE cur_line
             rest_long == IF too_long
                          THEN <<SubSeq(Head(rest), space_left + 1, Len(Head(rest)))>>
                                   \o Tail(rest)
                          ELSE rest
             kept == IF cur_long # <<>> /\ IsBlank(cur_long[Len(cur_long)])
                     THEN SubSeq(cur_long, 1, Len(cur_long) - 1) ELSE cur_long
         IN wrap_chunks(rest_long, width, indent,
                        IF kept # <<>> THEN Append(lines, indent \o Join(kept)) ELSE lines)

\* textwrap.fill(text, width, initial_indent=indent, subsequent_indent=indent,
\* break_on_hyphens=False); TextWrapper.wrap raises ValueError for width <= 0
textwrap_fill(text, width, indent) ==
    IF width <= 0 THEN [raised |-> TRUE, text |-> <<>>]
    ELSE [raised |-> FALSE,
          text |-> JoinLines(wrap_chunks(split_chunks(munge_whitespace(text), <<>>, <<>>),
                                         width, indent, <<>>))]

\* colorize(text, color_code)
colorize(text, color_code) ==
    <<ESC, "[">> \o Chars(color_code) \o <<"m">> \o text \o <<ESC, "[", "0", "m">>

\* regex.match at the head of text, for a literal pattern
MatchesHead(text, pattern, ignore_case) ==
    /\ pattern # <<>>
    /\ Len(text) >= Len(pattern)
    /\ \A k \in 1..Len(pattern) :
          IF ignore_case THEN LowerChar(text[k]) = LowerChar(pattern[k])
          ELSE text[k] = pattern[k]

\* regex.search(para_text) on a text, for a literal pattern
regex_search_text(text, pattern, ignore_case) ==
    \E i \in 1..Len(text) : MatchesHead(SubSeq(text, i, Len(text)), pattern, ignore_case)

\* highlight_matches(text, pattern, color_code, ignore_case): regex.sub replaces
\* the non-overlapping matches, leftmost first
RECURSIVE highlight_matches(_, _, _, _)
highlight_matches(text, pattern, color_code, ignore_case) ==
    IF text = <<>> THEN <<>>
    ELSE IF MatchesHead(text, pattern, ignore_case)
    THEN colorize(SubSeq(text, 1, Len(pattern)), color_code)
         \o highlight_matches(SubSeq(text, Len(pattern) + 1, Len(text)), pattern,
                              color_code, ignore_case)
    ELSE <<Head(text)>> \o highlight_matches(Tail(text), pattern, color_code, ignore_case)

\* Path(path).absolute().as_uri(), the working directory being /work
as_uri(path) == Chars("file:///work/" \o path)

\* make_hyperlink(path): the OSC 8 sequence around the path
make_hyperlink(path) ==
    <<ESC, "]", "8", ";", ";">> \o as_uri(path) \o <<ESC, "\\">>
    \o Chars(path)
    \o <<ESC, "]", "8", ";", ";", ESC, "\\">>

\* line 298 without the max(20, ...)
wrap_width_unclamped(term_width) == term_width - 8

\* line 298: wrap_width = max(20, term_width - margin), margin = 8
wrap_width(term_width) == IF term_width - 8 > 20 THEN term_width - 8 ELSE 20

\* lines 293-333 with the colour codes put in before the body is wrapped
format_matched_paragraph_style_first(file_path, para_text, pattern, a, para_index, term_width) ==
    LET styled == IF a.color
                  THEN highlight_matches(para_text, pattern, "31", a.ignore_case)
                  ELSE para_text
        filled == textwrap_fill(styled, wrap_width(term_width), <<"\t">>)
        body == IF a.hanging_indent THEN filled.text ELSE styled
        label == Chars(" [Paragraph " \o ToString(para_index + 1) \o "]: ")
        linked == (IF a.hyperlink THEN make_hyperlink(file_path) ELSE Chars(file_path))
                  \o label
        tabbed == IF a.initial_tab THEN <<"\t">> \o linked ELSE linked
        display_prefix == IF a.color THEN colorize(tabbed, "32") ELSE tabbed
    IN [raised |-> a.hanging_indent /\ filled.raised,
        wrap_width |-> IF a.hanging_indent THEN wrap_width(term_width) ELSE 0,
        line |-> IF a.hanging_indent THEN display_prefix \o <<"\n">> \o body
                 ELSE display_prefix \o body]

\* format_matched_paragraph as the text it returns; term_width is
\* shutil.get_terminal_size((80, 20)).columns, pattern is regex.pattern
format_matched_paragraph_text(file_path, para_text, pattern, a, para_index, term_width) ==
    LET filled == textwrap_fill(para_text, wrap_width(term_width), <<"\t">>)
        wrapped == IF a.hanging_indent THEN filled.text ELSE para_text
        label == Chars(" [Paragraph " \o ToString(para_index + 1) \o "]: ")
        linked == (IF a.hyperlink THEN make_hyperlink(file_path) ELSE Chars(file_path))
                  \o label
        tabbed == IF a.initial_tab THEN <<"\t">> \o linked ELSE linked
        display_prefix == IF a.color THEN colorize(tabbed, "32") ELSE tabbed
        display_body == IF a.color
                        THEN highlight_matches(wrapped, pattern, "31", a.ignore_case)
                        ELSE wrapped
    IN [raised |-> a.hanging_indent /\ filled.raised,
        wrap_width |-> IF a.hanging_indent THEN wrap_width(term_width) ELSE 0,
        line |-> IF a.hanging_indent THEN display_prefix \o <<"\n">> \o display_body
                 ELSE display_prefix \o display_body]

(***************************************************************************)
(* search_file(file_path, regex, args)                                     *)
(* A read outcome o is [ok |-> TRUE, at |-> 0] for a read that succeeds,   *)
(* [ok |-> FALSE, at |-> 0] when Document(file_path) raises, and           *)
(* [ok |-> FALSE, at |-> k] when reading paragraph k raises.               *)
(***************************************************************************)
ReadOutcomes(file_path) ==
    {[ok |-> TRUE, at |-> 0]}
      \cup {[ok |-> FALSE, at |-> k] : k \in 0..Len(Paragraphs(file_path))}

\* EarlyStop with the two file-list modes forgotten
EarlyStop_quiet_only(a) == a.quiet

\* line 260
EarlyStop(a) ==
    a.quiet \/ a.files_without_matches \/ (a.files_with_matches /\ ~a.count)

\* lines 253-267; i is the 1-based position of the paragraph about to be read,
\* tested counts the regex.search calls made
RECURSIVE SearchLoop(_, _, _, _, _, _, _, _)
SearchLoop(paras, i, o, file_path, a, matches, matched, tested) ==
    IF i > Len(paras)
    THEN [matches |-> matches, matched |-> matched, tested |-> tested, error |-> FALSE]
    ELSE IF ~o.ok /\ o.at = i
    THEN [matches |-> matches, matched |-> matched, tested |-> tested, error |-> TRUE]
    ELSE IF regex_search(paras[i])
    THEN IF EarlyStop(a)
         THEN [matches |-> matches, matched |-> TRUE, tested |-> tested + 1,
               error |-> FALSE]
         ELSE SearchLoop(paras, i + 1, o, file_path, a,
                         Append(matches,
                                format_matched_paragraph(file_path, paras[i], a, i - 1)),
                         TRUE, tested + 1)
    ELSE SearchLoop(paras, i + 1, o, file_path, a, matches, matched, tested + 1)

search_file(file_path, o, a) ==
    IF ~o.ok /\ o.at = 0
    THEN [matches |-> <<>>, matched |-> FALSE, tested |-> 0, error |-> TRUE]
    ELSE SearchLoop(Paragraphs(file_path), 1, o, file_path, a, <<>>, FALSE, 0)

\* lines 268-270: the diagnostic of a failed read
ReadErrorLog(file_path, found, a) ==
    IF found.error /\ ~(a.quiet \/ a.no_messages)
    THEN <<"Error reading " \o file_path>> ELSE <<>>

(***************************************************************************)
(* The aggregate.  matched_files is a dict: its keys in insertion order,   *)
(* an assignment to a key already present replaces the value in place.     *)
(***************************************************************************)
EmptyResults ==
    [matches |-> <<>>, match_count |-> 0, matched_files |-> <<>>,
     unmatched_files |-> {}]

DictKeys(d) == {d[k].file : k \in 1..Len(d)}

DictSet(d, key, value) ==
    IF key \in DictKeys(d)
    THEN [k \in 1..Len(d) |->
             IF d[k].file = key THEN [file |-> key, cnt |-> value] ELSE d[k]]
    ELSE Append(d, [file |-> key, cnt |-> value])

DictValues(d) == [k \in 1..Len(d) |-> d[k].cnt]

\* process_file without the sys.exit(0) of line 227
process_file_quiet_no_exit(file_path, o, a, res) ==
    LET found == search_file(file_path, o, a)
        scan == [file |-> file_path, ok |-> o.ok, at |-> o.at,
                 tested |-> found.tested, rendered |-> Len(found.matches),
                 matched |-> found.matched, error |-> found.error]
    IN IF found.matched
       THEN [results |->
                 [matches |-> res.matches \o found.matches,
                  match_count |-> res.match_count + Len(found.matches),
                  matched_files |->
                      DictSet(res.matched_files, file_path, Len(found.matches)),
                  unmatched_files |-> res.unmatched_files],
             halt |-> FALSE, scan |-> scan,
             log |-> ReadErrorLog(file_path, found, a)]
       ELSE [results |->
                 [res EXCEPT !.unmatched_files = @ \cup {file_path}],
             halt |-> FALSE, scan |-> scan,
             log |-> ReadErrorLog(file_path, found, a)]

(***************************************************************************)
(* process_file(file_path, regex, args, results)                           *)
(* halt: sys.exit(0) was called (line 227).                                *)
(***************************************************************************)
process_file(file_path, o, a, res) ==
    LET found == search_file(file_path, o, a)
        scan == [file |-> file_path, ok |-> o.ok, at |-> o.at,
                 tested |-> found.tested, rendered |-> Len(found.matches),
                 matched |-> found.matched, error |-> found.error]
    IN IF found.matched
       THEN IF a.quiet
            THEN [results |-> res, halt |-> TRUE, scan |-> scan,
                  log |-> ReadErrorLog(file_path, found, a)]
            ELSE [results |->
                      [matches |-> res.matches \o found.matches,
                       match_count |-> res.match_count + Len(found.matches),
                       matched_files |->
                           DictSet(res.matched_files, file_path, Len(found.matches)),
                       unmatched_files |-> res.unmatched_files],
                  halt |-> FALSE, scan |-> scan,
                  log |-> ReadErrorLog(file_path, found, a)]
       ELSE [results |->
                 [res EXCEPT !.unmatched_files = @ \cup {file_path}],
             halt |-> FALSE, scan |-> scan,
             log |-> ReadErrorLog(file_path, found, a)]

(***************************************************************************)
(* print_results(results, args)                                            *)
(***************************************************************************)
\* sorted() of path strings: the paths of the file system in ascending order
SortedPaths == <<"d/a.docx", "d/b.docx", "d/sub/c.DOCX">>

Sorted(S) == SelectSeq(SortedPaths, LAMBDA p : p \in S)

\* make_hyperlink(f) when args.hyperlink, else f
PathLine(f, a) == [kind |-> "path", file |-> f, link |-> a.hyperlink]

MatchedFileLine(entry, a) ==
    IF a.count
    THEN [kind |-> "path_count", file |-> entry.file, link |-> a.hyperlink,
          n |-> entry.cnt]
    ELSE PathLine(entry.file, a)

NumberLine(n) == [kind |-> "number", n |-> n]

\* print_results whose quiet branch returns instead of calling sys.exit(1)
print_results_quiet_returns(res, a) ==
    IF a.quiet THEN [out |-> <<>>, exits |-> FALSE]
    ELSE IF a.files_without_matches
    THEN [out |-> [k \in 1..Len(Sorted(res.unmatched_files)) |->
                      PathLine(Sorted(res.unmatched_files)[k], a)],
          exits |-> FALSE]
    ELSE IF a.files_with_matches
    THEN [out |-> [k \in 1..Len(res.matched_files) |->
                      MatchedFileLine(res.matched_files[k], a)]
                  \o (IF a.count THEN <<NumberLine(res.match_count)>> ELSE <<>>),
          exits |-> FALSE]
    ELSE IF a.count THEN [out |-> <<NumberLine(res.match_count)>>, exits |-> FALSE]
    ELSE [out |-> res.matches, exits |-> FALSE]

\* print_results with the -l branch tested before the -L branch
print_results_with_before_without(res, a) ==
    IF a.quiet THEN [out |-> <<>>, exits |-> TRUE]
    ELSE IF a.files_with_matches
    THEN [out |-> [k \in 1..Len(res.matched_files) |->
                      MatchedFileLine(res.matched_files[k], a)]
                  \o (IF a.count THEN <<NumberLine(res.match_count)>> ELSE <<>>),
          exits |-> FALSE]
    ELSE IF a.files_without_matches
    THEN [out |-> [k \in 1..Len(Sorted(res.unmatched_files)) |->
                      PathLine(Sorted(res.unmatched_files)[k], a)],
          exits |-> FALSE]
    ELSE IF a.count THEN [out |-> <<NumberLine(res.match_count)>>, exits |-> FALSE]
    ELSE [out |-> res.matches, exits |-> FALSE]

\* exits: sys.exit(1) was called (line 388)
print_results(res, a) ==
    IF a.quiet THEN [out |-> <<>>, exits |-> TRUE]
    ELSE IF a.files_without_matches
    THEN [out |-> [k \in 1..Len(Sorted(res.unmatched_files)) |->
                      PathLine(Sorted(res.unmatched_files)[k], a)],
          exits |-> FALSE]
    ELSE IF a.files_with_matches
    THEN [out |-> [k \in 1..Len(res.matched_files) |->
                      MatchedFileLine(res.matched_files[k], a)]
                  \o (IF a.count THEN <<NumberLine(res.match_count)>> ELSE <<>>),
          exits |-> FALSE]
    ELSE IF a.count THEN [out |-> <<NumberLine(res.match_count)>>, exits |-> FALSE]
    ELSE [out |-> res.matches, exits |-> FALSE]

(***************************************************************************)
(* main(), as steps over a run: the record of everything one process holds.*)
(***************************************************************************)
NewRun(a) ==
    [args |-> a, pc |-> "start", pi |-> 0, file_list |-> <<>>, idx |-> 0,
     results |-> EmptyResults, stdout |-> <<>>, log |-> <<>>, exit_code |-> -1,
     last_scan |-> <<>>, failures |-> 0, hits |-> 0]

\* suggest_terminals_if_no_hyperlink (lines 520-522)
HyperlinkWarnings ==
    <<"Your terminal does not appear to support OSC 8 hyperlinks.",
      "Try Windows Terminal",
      "Try iTerm2 (macOS)">>

\* list.remove("-"): the first occurrence only
RECURSIVE RemoveFirst(_, _)
RemoveFirst(s, x) ==
    IF s = <<>> THEN <<>>
    ELSE IF Head(s) = x THEN Tail(s)
    ELSE <<Head(s)>> \o RemoveFirst(Tail(s), x)

\* lines 107-110: the stripped, non-empty lines of stdin
RECURSIVE StdinPaths(_)
StdinPaths(lines) ==
    IF lines = <<>> THEN <<>>
    ELSE (IF Strip(Head(lines)) # "" THEN <<Strip(Head(lines))>> ELSE <<>>)
         \o StdinPaths(Tail(lines))

\* lines 78-110: hyperlink detection, the empty aggregate, "-" replaced by stdin
main_startup(r, in, e) ==
    LET unsupported == r.args.hyperlink /\ ~supports_hyperlink(e)
        dash == \E k \in 1..Len(r.args.paths) : r.args.paths[k] = "-"
    IN [r EXCEPT
          !.args = [@ EXCEPT
                      !.hyperlink = @ /\ ~unsupported,
                      !.paths = IF dash
                                THEN RemoveFirst(@, "-") \o StdinPaths(in)
                                ELSE @],
          !.log = IF unsupported THEN @ \o HyperlinkWarnings ELSE @,
          !.results = EmptyResults,
          !.pc = "enumerate"]

\* lines 115-120, for the glob results gs of one input path
RECURSIVE ResolveGlobbed(_, _, _, _)
ResolveGlobbed(gs, a, fl, lg) ==
    IF gs = <<>> THEN [file_list |-> fl, log |-> lg]
    ELSE IF ~Exists(Head(gs))
    THEN ResolveGlobbed(Tail(gs), a, fl,
                        IF ~(a.quiet \/ a.no_messages)
                        THEN Append(lg, "Invalid path: " \o Head(gs)) ELSE lg)
    ELSE ResolveGlobbed(Tail(gs), a, fl \o get_file_list(Head(gs), a.recursive), lg)

\* one iteration of the loop of line 114
main_resolve_path(r) ==
    LET got == ResolveGlobbed(glob(r.args.paths[r.pi + 1]), r.args, r.file_list, r.log)
    IN [r EXCEPT !.file_list = got.file_list, !.log = got.log, !.pi = @ + 1]

\* lines 123-126 without the sys.exit(2): the scan loop is entered anyway
main_check_candidates_no_exit(r) ==
    IF r.file_list = <<>>
    THEN [r EXCEPT
            !.log = IF ~(r.args.quiet \/ r.args.no_messages)
                    THEN Append(@, "No .docx files found to search.") ELSE @,
            !.pc = "scan"]
    ELSE [r EXCEPT !.pc = "scan"]

\* lines 123-126 with the sys.exit(2) indented under the logging condition
main_check_candidates_exit_in_if(r) ==
    IF r.file_list = <<>> /\ ~(r.args.quiet \/ r.args.no_messages)
    THEN [r EXCEPT
            !.log = Append(@, "No .docx files found to search."),
            !.exit_code = 2,
            !.pc = "done"]
    ELSE [r EXCEPT !.pc = "scan"]

\* lines 123-126
main_check_candidates(r) ==
    IF r.file_list = <<>>
    THEN [r EXCEPT
            !.log = IF ~(r.args.quiet \/ r.args.no_messages)
                    THEN Append(@, "No .docx files found to search.") ELSE @,
            !.exit_code = 2,
            !.pc = "done"]
    ELSE [r EXCEPT !.pc = "scan"]

\* one iteration of the loop of lines 137-138
main_process_file(r, o) ==
    LET got == process_file(r.file_list[r.idx + 1], o, r.args, r.results)
    IN [r EXCEPT
          !.results = got.results,
          !.last_scan = <<got.scan>>,
          !.failures = IF o.ok THEN @ ELSE @ + 1,
          !.hits = IF got.scan.matched THEN @ + 1 ELSE @,
          !.log = @ \o got.log,
          !.idx = @ + 1,
          !.exit_code = IF got.halt THEN 0 ELSE @,
          !.pc = IF got.halt THEN "done" ELSE @]

\* line 144, and the return from main
main_print_results(r) ==
    LET got == print_results(r.results, r.args)
    IN [r EXCEPT
          !.stdout = @ \o got.out,
          !.exit_code = IF got.exits THEN 1 ELSE 0,
          !.pc = "done"]

\* the step a run takes next, on stdin in, environment e and read outcome o
RunStep(r, in, e, o) ==
    CASE r.pc = "start" -> main_startup(r, in, e)
      [] r.pc = "enumerate" /\ r.pi < Len(r.args.paths) -> main_resolve_path(r)
      [] r.pc = "enumerate" /\ r.pi >= Len(r.args.paths) -> main_check_candidates(r)
      [] r.pc = "scan" /\ r.idx < Len(r.file_list) -> main_process_file(r, o)
      [] r.pc = "scan" /\ r.idx >= Len(r.file_list) -> main_print_results(r)
      [] OTHER -> r

(***************************************************************************)
(* The state machine.                                                      *)
(***************************************************************************)
Cur ==
    [args |-> args, pc |-> pc, pi |-> pi, file_list |-> file_list, idx |-> idx,
     results |-> results, stdout |-> stdout, log |-> log, exit_code |-> exit_code,
     last_scan |-> last_scan, failures |-> failures, hits |-> hits]

Install(r) ==
    /\ args' = r.args
    /\ pc' = r.pc
    /\ pi' = r.pi
    /\ file_list' = r.file_list
    /\ idx' = r.idx
    /\ results' = r.results
    /\ stdout' = r.stdout
    /\ log' = r.log
    /\ exit_code' = r.exit_code
    /\ last_scan' = r.last_scan
    /\ failures' = r.failures
    /\ hits' = r.hits

GoodRead == [ok |-> TRUE, at |-> 0]

InputPaths == {"d", "d/a.docx", "d/b*", "nope.docx", "dangling.docx"}

\* the command lines: up to MaxPaths paths, or "-" alone (the paths come from stdin)
PathLists == UNION {[1..n -> InputPaths] : n \in 1..MaxPaths} \cup {<<"-">>}

StdinInputs == {<<>>, <<" d/a.docx\n", "\n", "d/b*\n">>}

NoEnvironment ==
    [isatty |-> FALSE, DOMTERM |-> <<>>, WT_SESSION |-> <<>>, KONSOLE_VERSION |-> <<>>,
     VTE_VERSION |-> <<>>, TERM_PROGRAM |-> <<>>, TERM |-> <<>>, COLORTERM |-> <<>>]

\* a pipe, and a Windows Terminal session
RunEnvironments ==
    {NoEnvironment, [NoEnvironment EXCEPT !.isatty = TRUE, !.WT_SESSION = <<"guid">>]}

Environments ==
    [isatty : BOOLEAN,
     DOMTERM : {<<>>, <<"1">>},
     WT_SESSION : {<<>>, <<"guid">>},
     KONSOLE_VERSION : {<<>>, <<"245.7">>},
     VTE_VERSION : {<<>>, <<"">>, <<"6003">>, <<"4999">>, <<"abc">>, <<"0.52.2">>,
                    <<"6800-gtk">>},
     TERM_PROGRAM : {<<>>, <<"iTerm.app">>, <<" vscode ">>, <<"Apple_Terminal">>},
     TERM : {<<>>, <<"xterm-kitty">>, <<"xterm-256color">>},
     COLORTERM : {<<>>, <<"TrueColor">>, <<"xfce4-terminal">>, <<"yes">>}]

Flags ==
    [quiet : BOOLEAN, count : BOOLEAN, files_with_matches : BOOLEAN,
     files_without_matches : BOOLEAN, no_messages : BOOLEAN, recursive : BOOLEAN,
     hyperlink : BOOLEAN, paths : PathLists]

\* no call of format_matched_paragraph is being followed
NoFormat == [called |-> FALSE]

Twin(a) == NewRun([a EXCEPT !.no_messages = ~@])

Init ==
    /\ args \in Flags
    /\ stdin \in (IF \E k \in 1..Len(args.paths) : args.paths[k] = "-"
                  THEN StdinInputs ELSE {<<>>})
    /\ env \in (IF args.hyperlink THEN RunEnvironments ELSE {NoEnvironment})
    /\ pc = "start"
    /\ pi = 0
    /\ file_list = <<>>
    /\ idx = 0
    /\ results = EmptyResults
    /\ stdout = <<>>
    /\ log = <<>>
    /\ exit_code = -1
    /\ last_scan = <<>>
    /\ failures = 0
    /\ hits = 0
    /\ twin = Twin(args)
    /\ fmt = NoFormat

Startup ==
    /\ pc = "start"
    /\ Install(main_startup(Cur, stdin, env))
    /\ twin' = RunStep(twin, stdin, env, GoodRead)
    /\ UNCHANGED <<stdin, env, fmt>>

ResolvePath ==
    /\ pc = "enumerate"
    /\ pi < Len(args.paths)
    /\ Install(main_resolve_path(Cur))
    /\ twin' = RunStep(twin, stdin, env, GoodRead)
    /\ UNCHANGED <<stdin, env, fmt>>

CheckCandidates ==
    /\ pc = "enumerate"
    /\ pi >= Len(args.paths)
    /\ Install(main_check_candidates(Cur))
    /\ twin' = RunStep(twin, stdin, env, GoodRead)
    /\ UNCHANGED <<stdin, env, fmt>>

ProcessFile ==
    /\ pc = "scan"
    /\ idx < Len(file_list)
    /\ \E o \in ReadOutcomes(file_list[idx + 1]) :
          /\ o.ok \/ failures < MaxFailures
          /\ Install(main_process_file(Cur, o))
          /\ twin' = RunStep(twin, stdin, env, o)
    /\ UNCHANGED <<stdin, env, fmt>>

PrintResults ==
    /\ pc = "scan"
    /\ idx >= Len(file_list)
    /\ Install(main_print_results(Cur))
    /\ twin' = RunStep(twin, stdin, env, GoodRead)
    /\ UNCHANGED <<stdin, env, fmt>>

Next == Startup \/ ResolvePath \/ CheckCandidates \/ ProcessFile \/ PrintResults

Spec == Init /\ [][Next]_vars

\* supports_hyperlink over every environment: a run that asks for hyperlinks
InitHyper ==
    /\ args \in {a \in Flags : a.hyperlink /\ a.paths = <<"d/a.docx">>
                               /\ ~a.quiet /\ ~a.count /\ ~a.recursive
                               /\ ~a.files_with_matches /\ ~a.files_without_matches}
    /\ stdin = <<>>
    /\ env \in Environments
    /\ pc = "start"
    /\ pi = 0
    /\ file_list = <<>>
    /\ idx = 0
    /\ results = EmptyResults
    /\ stdout = <<>>
    /\ log = <<>>
    /\ exit_code = -1
    /\ last_scan = <<>>
    /\ failures = 0
    /\ hits = 0
    /\ twin = Twin(args)
    /\ fmt = NoFormat

NextHyper == Startup

SpecHyper == InitHyper /\ [][NextHyper]_vars

(***************************************************************************)
(* Properties.                                                             *)
(***************************************************************************)
HasMatch(paras) == \E i \in 1..Len(paras) : regex_search(paras[i])

FirstMatchPos(paras) ==
    CHOOSE i \in 1..Len(paras) :
        regex_search(paras[i]) /\ \A j \in 1..(i - 1) : ~regex_search(paras[j])

Scanned == last_scan # <<>>

Last == last_scan[1]

\* C1: in quiet mode, once a scan has returned a match the run is over with
\* exit code 0, the match is that of the latest scan, nothing was printed, and
\* no later step opens another candidate.
C1_QuietHaltsOnFirstMatch ==
    /\ [](args.quiet /\ hits > 0 =>
            /\ pc = "done"
            /\ exit_code = 0
            /\ hits = 1
            /\ Last.matched
            /\ stdout = <<>>)
    /\ [][args.quiet /\ hits > 0 => UNCHANGED <<idx, last_scan>>]_vars

\* a quiet run that halted on a match while candidates were still waiting
C1_Witness ==
    /\ args.quiet
    /\ hits > 0
    /\ pc = "done"
    /\ idx < Len(file_list)

\* C2: in quiet mode, with -L, and with -l without -c, a scan that matched
\* tested the paragraphs up to the first matching one and no further, and
\* rendered none.
C2_ScanStopsAtFirstMatch ==
    (/\ Scanned
     /\ Last.matched
     /\ (args.quiet \/ args.files_without_matches
           \/ (args.files_with_matches /\ ~args.count)))
    => /\ Last.tested = FirstMatchPos(Paragraphs(Last.file))
       /\ Last.rendered = 0

\* a -L or -l scan that stopped with paragraphs (one of them matching) left
C2_Witness ==
    /\ Scanned
    /\ ~args.quiet
    /\ args.files_without_matches \/ (args.files_with_matches /\ ~args.count)
    /\ Last.matched
    /\ Last.tested = 1
    /\ \E i \in 2..Len(Paragraphs(Last.file)) : regex_search(Paragraphs(Last.file)[i])

\* C3: match_count equals the sum of the values of matched_files.
C3_CountIsSumOfFileCounts ==
    results.match_count = SeqSum(DictValues(results.matched_files))

\* C4: no path is both a key of matched_files and a member of unmatched_files.
C4_MatchedUnmatchedDisjoint ==
    DictKeys(results.matched_files) \cap results.unmatched_files = {}

\* C5: a scan whose read fails leaves the file unmatched: the file is in
\* unmatched_files and not a key of matched_files, the scan adds no rendered
\* line and nothing to match_count, and the run goes on scanning.
C5_FailedReadIsUnmatched ==
    [][(idx' = idx + 1 /\ ~last_scan'[1].ok) =>
          /\ last_scan'[1].file \in results'.unmatched_files
          /\ last_scan'[1].file \notin DictKeys(results'.matched_files)
          /\ results'.matches = results.matches
          /\ results'.match_count = results.match_count
          /\ pc' = "scan"]_vars

\* C6: once every input path is resolved and the candidate list is empty, the
\* run is over with exit code 2, no document was read and nothing was printed.
C6_NoCandidatesExitsTwo ==
    (pc \notin {"start", "enumerate"} /\ file_list = <<>>)
    => /\ pc = "done"
       /\ exit_code = 2
       /\ stdout = <<>>
       /\ ~Scanned
       /\ idx = 0

\* a quiet run over two input paths, neither of which yields a candidate
C6_Witness ==
    /\ pc = "done"
    /\ file_list = <<>>
    /\ args.quiet
    /\ Len(args.paths) = 2
    /\ exit_code = 2

\* C7: with at least one candidate, the run ends with exit code 1 exactly when
\* quiet is set and no candidate was found to contain a matching paragraph, and
\* with exit code 0 otherwise (every non-quiet run, and a quiet run with a
\* match).  A candidate that is read without error is found to match exactly
\* when one of its paragraphs matches; a candidate whose read fails counts as
\* unmatched, as in C5 and C12.
C7_ExitOneIffQuietAndNoScanMatched ==
    /\ (pc = "done" /\ file_list # <<>>)
           => exit_code = (IF args.quiet /\ hits = 0 THEN 1 ELSE 0)
    /\ (Scanned /\ args.quiet /\ ~Last.error)
           => (Last.matched <=> HasMatch(Paragraphs(Last.file)))
    /\ (Scanned /\ args.quiet /\ Last.error) => ~Last.matched

\* a quiet run that scanned every candidate and found nothing
C7_Witness ==
    /\ pc = "done"
    /\ args.quiet
    /\ hits = 0
    /\ Len(file_list) >= 2
    /\ idx = Len(file_list)
    /\ exit_code = 1

\* C8: resolving an input path that matches nothing or does not exist emits
\* one diagnostic unless quiet or no_messages is set, adds no candidate, and
\* leaves the run enumerating.
Unresolvable(p) == \A k \in 1..Len(glob(p)) : ~Exists(glob(p)[k])

C8_MissingPathReportedAndSkipped ==
    [][(pc = "enumerate" /\ pi' = pi + 1 /\ Unresolvable(args.paths[pi + 1])) =>
          /\ Len(log') = Len(log) + (IF args.quiet \/ args.no_messages THEN 0 ELSE 1)
          /\ file_list' = file_list
          /\ pc' = "enumerate"]_vars

\* C9: the run and its twin, which differ in no_messages only, agree at every
\* step on everything but the diagnostics: the candidates and how far they
\* are read, the latest scan, the aggregate, the output and the exit code.
Observable(r) ==
    [flags |-> [r.args EXCEPT !.no_messages = FALSE],
     pc |-> r.pc, pi |-> r.pi, file_list |-> r.file_list, idx |-> r.idx,
     results |-> r.results, stdout |-> r.stdout, exit_code |-> r.exit_code,
     last_scan |-> r.last_scan, failures |-> r.failures, hits |-> r.hits]

C9_NoMessagesOnlyChangesDiagnostics == Observable(Cur) = Observable(twin)

\* a finished run with a failed read whose diagnostics differ from its twin's
C9_Witness ==
    /\ pc = "done"
    /\ failures > 0
    /\ idx >= 2
    /\ log # twin.log
    /\ args.no_messages # twin.args.no_messages

\* C10: on an interactive output, one positive signal among the seven makes
\* supports_hyperlink answer supported, whatever the other signals are.
VtePositive(e) ==
    /\ IsSet(e.VTE_VERSION)
    /\ IntParses(e.VTE_VERSION[1])
    /\ IntValue(e.VTE_VERSION[1]) >= 5000

AnyPositiveSignal(e) ==
    \/ IsSet(e.DOMTERM)
    \/ IsSet(e.WT_SESSION)
    \/ IsSet(e.KONSOLE_VERSION)
    \/ VtePositive(e)
    \/ Strip(EnvGet(e.TERM_PROGRAM, "")) \in TermPrograms
    \/ Strip(EnvGet(e.TERM, "")) \in TermNames
    \/ ColortermPositive(e)

C10_AnyPositiveSignalWins ==
    (pc # "start" /\ env.isatty /\ AnyPositiveSignal(env)) => args.hyperlink


\* C11: when stdout is not a terminal, supports_hyperlink answers unsupported
\* whatever the environment variables are: the hyperlink request is dropped.
C11_NotInteractiveIsUnsupported ==
    (pc # "start" /\ ~env.isatty) => (~supports_hyperlink(env) /\ ~args.hyperlink)

\* a pipe whose environment carries a positive signal, after detection
C11_Witness ==
    /\ pc # "start"
    /\ ~env.isatty
    /\ AnyPositiveSignal(env)
    /\ ~args.hyperlink


\* C12: in FilesWithoutMatches mode the printed lines are the candidate paths
\* in which no scan found a match (unreadable files included), in strictly
\* ascending order, hence each once; no path registered as matched is printed.
Rank(p) == CHOOSE k \in 1..Len(SortedPaths) : SortedPaths[k] = p

Candidates == {file_list[k] : k \in 1..Len(file_list)}

C12_UnmatchedPathsSortedOnce ==
    (pc = "done" /\ file_list # <<>> /\ ~args.quiet /\ args.files_without_matches)
    => /\ \A k \in 1..Len(stdout) : stdout[k].kind = "path"
       /\ {stdout[k].file : k \in 1..Len(stdout)}
              = Candidates \ DictKeys(results.matched_files)
       /\ \A i, j \in 1..Len(stdout) :
              i < j => Rank(stdout[i].file) < Rank(stdout[j].file)


\* C13: in Full mode every scan appends one rendered line per matching
\* paragraph of its candidate, in ascending paragraph position and labelled
\* with the 1-based position in the whole paragraph stream (a candidate whose
\* read fails is unmatched and appends nothing, as C5 states), and the output
\* of the finished run is these lines in the order they were appended.
FullMode ==
    ~(args.quiet \/ args.files_without_matches \/ args.files_with_matches \/ args.count)

MatchPositions(paras) ==
    SelectSeq([i \in 1..Len(paras) |-> i], LAMBDA i : regex_search(paras[i]))

ExpectedLabels(scan) ==
    IF scan.error THEN <<>>
    ELSE [k \in 1..Len(MatchPositions(Paragraphs(scan.file))) |->
             <<scan.file, MatchPositions(Paragraphs(scan.file))[k]>>]

AppendedLabels(before, after) ==
    [k \in 1..(Len(after) - Len(before)) |->
        <<after[Len(before) + k].file, after[Len(before) + k].label>>]

C13_FullModeLinesInDiscoveryOrder ==
    /\ [][(FullMode /\ idx' = idx + 1) =>
            /\ last_scan'[1].file = file_list[idx + 1]
            /\ Len(results'.matches) >= Len(results.matches)
            /\ SubSeq(results'.matches, 1, Len(results.matches)) = results.matches
            /\ AppendedLabels(results.matches, results'.matches)
                   = ExpectedLabels(last_scan'[1])]_vars
    /\ []((pc = "done" /\ FullMode /\ file_list # <<>>) =>
            /\ idx = Len(file_list)
            /\ stdout = results.matches)


\* C14: in CountOnly mode every scan adds to the total the number of matching
\* paragraphs of its candidate, a paragraph with several spans counting once
\* (a candidate whose read fails is unmatched and adds nothing, as C5 states),
\* and the output of the finished run is that total alone.
CountOnlyMode ==
    /\ args.count
    /\ ~(args.quiet \/ args.files_without_matches \/ args.files_with_matches)

MatchingParagraphs(scan) ==
    IF scan.error THEN 0
    ELSE Cardinality({i \in 1..Len(Paragraphs(scan.file)) :
                         regex_search(Paragraphs(scan.file)[i])})

C14_CountOnlyPrintsTotal ==
    /\ [][(CountOnlyMode /\ idx' = idx + 1) =>
            results'.match_count
                = results.match_count + MatchingParagraphs(last_scan'[1])]_vars
    /\ []((pc = "done" /\ CountOnlyMode /\ file_list # <<>>) =>
            /\ idx = Len(file_list)
            /\ stdout = <<[kind |-> "number", n |-> results.match_count]>>)


(***************************************************************************)
(* get_file_list over directories, sub-directories, lock files and other   *)
(* files: the enumeration loop of main alone.                              *)
(***************************************************************************)
FileInputPaths ==
    {"d", "d/sub", "d/a.docx", "d/~$a.docx", "d/n.txt", "d/sub/c.DOCX", "d/*"}

InitFiles ==
    /\ args \in [quiet : {FALSE}, count : {FALSE}, files_with_matches : {FALSE},
                 files_without_matches : {FALSE}, no_messages : {FALSE},
                 recursive : BOOLEAN, hyperlink : {FALSE},
                 paths : UNION {[1..n -> FileInputPaths] : n \in 1..MaxPaths}]
    /\ stdin = <<>>
    /\ env = NoEnvironment
    /\ pc = "start"
    /\ pi = 0
    /\ file_list = <<>>
    /\ idx = 0
    /\ results = EmptyResults
    /\ stdout = <<>>
    /\ log = <<>>
    /\ exit_code = -1
    /\ last_scan = <<>>
    /\ failures = 0
    /\ hits = 0
    /\ twin = Twin(args)
    /\ fmt = NoFormat

NextFiles == Startup \/ ResolvePath

SpecFiles == InitFiles /\ [][NextFiles]_vars

\* C15: every enumerated path has a name that ends in ".docx" (compared without
\* regard to case) and does not start with "~$"; a directory given as a path
\* contributes, each once, exactly the eligible files directly inside it when
\* recursion is off and exactly the eligible files at every depth below it when
\* recursion is on; a regular file contributes itself iff it is eligible.
EligibleName(name) ==
    /\ Len(name) >= 5
    /\ Lower(SubSeq(name, Len(name) - 4, Len(name))) = ".docx"
    /\ SubSeq(name, 1, 2) # "~$"

ExpectedFiles(path, recursive) ==
    IF path \in Dirs
    THEN {f \in RegularFiles :
            /\ EligibleName(Basename(f))
            /\ IF recursive THEN StartsWith(f, path \o "/")
                            ELSE f = path \o "/" \o Basename(f)}
    ELSE {f \in RegularFiles : f = path /\ EligibleName(Basename(f))}

C15_FileListIsTheEligibleFiles ==
    /\ [](\A k \in 1..Len(file_list) : EligibleName(Basename(file_list[k])))
    /\ [][(pi' = pi + 1 /\ ~HasMagic(args.paths[pi + 1])) =>
            LET added == SubSeq(file_list', Len(file_list) + 1, Len(file_list'))
            IN /\ SubSeq(file_list', 1, Len(file_list)) = file_list
               /\ {added[k] : k \in 1..Len(added)}
                      = ExpectedFiles(args.paths[pi + 1], args.recursive)
               /\ Len(added) = Cardinality(ExpectedFiles(args.paths[pi + 1],
                                                         args.recursive))]_vars

C15_Witness ==
    /\ args.recursive
    /\ args.paths = <<"d/~$a.docx", "d">>
    /\ pi = 2
    /\ file_list = <<"d/a.docx", "d/b.docx", "d/sub/c.DOCX">>


(***************************************************************************)
(* format_matched_paragraph on its own: one call, over the formatting      *)
(* flags, the terminal widths and a few paragraphs.                        *)
(***************************************************************************)
ParagraphTexts ==
    {"The cat sat on the mat with the cat",
     "x  supercalifragilisticexpialidocious cat",
     "Cat-flap: the cat"}

Patterns == {"cat", "the cat"}

\* what shutil.get_terminal_size((80, 20)).columns may report
TerminalColumns == {-3, 0, 27, 28, 29, 36, 80}

FormatFlags ==
    [hanging_indent : BOOLEAN, initial_tab : BOOLEAN, color : BOOLEAN,
     hyperlink : BOOLEAN, ignore_case : BOOLEAN]

InitFormat ==
    /\ args \in {a \in Flags : a = [quiet |-> FALSE, count |-> FALSE,
                                    files_with_matches |-> FALSE,
                                    files_without_matches |-> FALSE,
                                    no_messages |-> FALSE, recursive |-> FALSE,
                                    hyperlink |-> FALSE, paths |-> <<"d/a.docx">>]}
    /\ stdin = <<>>
    /\ env = NoEnvironment
    /\ pc = "scan"
    /\ pi = 1
    /\ file_list = <<"d/a.docx">>
    /\ idx = 0
    /\ results = EmptyResults
    /\ stdout = <<>>
    /\ log = <<>>
    /\ exit_code = -1
    /\ last_scan = <<>>
    /\ failures = 0
    /\ hits = 0
    /\ twin = Twin(args)
    /\ fmt \in {f \in [called : {FALSE}, file_path : {"d/a.docx"},
                        para_text : ParagraphTexts, pattern : Patterns,
                        args : FormatFlags, para_index : {0, 9},
                        term_width : TerminalColumns]
                    : regex_search_text(Chars(f.para_text), Chars(f.pattern),
                                        f.args.ignore_case)}

\* search_file, lines 256-264: the call, made for a paragraph the pattern
\* matches; plain is the same call with color and hyperlink off
FormatParagraph ==
    /\ ~fmt.called
    /\ "para_text" \in DOMAIN fmt
    /\ fmt' = [called |-> TRUE, file_path |-> fmt.file_path, para_text |-> fmt.para_text,
               pattern |-> fmt.pattern, args |-> fmt.args, para_index |-> fmt.para_index,
               term_width |-> fmt.term_width,
               returned |-> format_matched_paragraph_text(
                                fmt.file_path, Chars(fmt.para_text), Chars(fmt.pattern),
                                fmt.args, fmt.para_index, fmt.term_width),
               plain |-> format_matched_paragraph_text(
                             fmt.file_path, Chars(fmt.para_text), Chars(fmt.pattern),
                             [fmt.args EXCEPT !.color = FALSE, !.hyperlink = FALSE],
                             fmt.para_index, fmt.term_width)]
    /\ UNCHANGED <<args, stdin, env, pc, pi, file_list, idx, results, stdout, log,
                   exit_code, last_scan, failures, hits, twin>>

NextFormat == FormatParagraph

SpecFormat == InitFormat /\ [][NextFormat]_vars

\* the lines of a text, split at "\n"
RECURSIVE SplitLines(_, _)
SplitLines(text, cur) ==
    IF text = <<>> THEN <<cur>>
    ELSE IF Head(text) = "\n" THEN <<cur>> \o SplitLines(Tail(text), <<>>)
    ELSE SplitLines(Tail(text), Append(cur, Head(text)))

\* C16: with hanging indent the wrap width is max(20, columns - 8): 20 for
\* every width below 28, zero and negative widths included, and columns - 8
\* from there on; the wrapper never raises, and no line of the wrapped body,
\* its tab included, is longer than that width.
C16_WrapWidthAtLeastTwenty ==
    (fmt.called /\ fmt.args.hanging_indent) =>
        LET w == fmt.returned.wrap_width
            lines == SplitLines(fmt.plain.line, <<>>)
        IN /\ w >= 20
           /\ w >= fmt.term_width - 8
           /\ w = 20 \/ w = fmt.term_width - 8
           /\ ~fmt.returned.raised
           /\ \A k \in 2..Len(lines) : Len(lines[k]) <= w

C16_Witness ==
    /\ fmt.called /\ fmt.args.hanging_indent
    /\ fmt.term_width <= 0
    /\ fmt.returned.wrap_width = 20
    /\ Len(SplitLines(fmt.plain.line, <<>>)) > 2

\* The text left when the escape sequences are taken out.  Every escape
\* sequence starts at an ESC: ESC [ runs to its final "m", ESC ] runs to the
\* next ESC, and ESC \ ends it.
EscapeBefore(text, i) ==
    LET starts == {j \in 1..i : text[j] = ESC}
    IN IF starts = {} THEN 0 ELSE CHOOSE j \in starts : \A k \in starts : k <= j

InEscape(text, i) ==
    LET e == EscapeBefore(text, i)
        opener == IF e > 0 /\ e < Len(text) THEN text[e + 1] ELSE ""
    IN /\ e > 0
       /\ CASE opener = "[" -> \A k \in (e + 2)..(i - 1) : text[k] # "m"
            [] opener = "]" -> TRUE
            [] opener = "\\" -> i <= e + 1
            [] OTHER -> i = e

StripEscapes(text) ==
    LET shown == SelectSeq([i \in 1..Len(text) |-> i], LAMBDA i : ~InEscape(text, i))
    IN [k \in 1..Len(shown) |-> text[shown[k]]]

\* C17: for every hanging-indent and initial-tab setting, the line rendered
\* with color and/or hyperlink on, its escape sequences taken out, is the line
\* rendered with both off, character for character, line breaks included.
C17_StylingKeepsVisibleText ==
    fmt.called => StripEscapes(fmt.returned.line) = fmt.plain.line

C17_Witness ==
    /\ fmt.called
    /\ fmt.args.color /\ fmt.args.hyperlink /\ fmt.args.hanging_indent
    /\ fmt.para_text = "The cat sat on the mat with the cat"
    /\ fmt.pattern = "the cat" /\ fmt.args.ignore_case
    /\ fmt.term_width = 27
    /\ Len(fmt.returned.line) > Len(fmt.plain.line)
    /\ Len(SplitLines(fmt.plain.line, <<>>)) = 3


\* C18: whatever mode flags are set together, the output of a finished run is
\* that of the one mode chosen by quiet > -L > -l > -c > full: nothing; the
\* unmatched paths alone; the matched paths alone (with -c their counts and
\* the total); the total alone; the rendered lines alone.  A scan that reads
\* its document through and finds a match stops at the first match exactly
\* when the chosen output needs neither lines nor counts (quiet, -L, -l
\* without -c), and otherwise tests and renders every paragraph.
SelectedMode(a) ==
    IF a.quiet THEN "Quiet"
    ELSE IF a.files_without_matches THEN "FilesWithoutMatches"
    ELSE IF a.files_with_matches THEN "FilesWithMatches"
    ELSE IF a.count THEN "CountOnly"
    ELSE "Full"

NeedsParagraphs(a) ==
    \/ SelectedMode(a) \in {"CountOnly", "Full"}
    \/ SelectedMode(a) = "FilesWithMatches" /\ a.count

OutputOfMode(mode) ==
    CASE mode = "Quiet" -> stdout = <<>>
      [] mode = "FilesWithoutMatches" ->
            /\ \A k \in 1..Len(stdout) : stdout[k].kind = "path"
            /\ {stdout[k].file : k \in 1..Len(stdout)} = results.unmatched_files
            /\ Len(stdout) = Cardinality(results.unmatched_files)
      [] mode = "FilesWithMatches" ->
            /\ Len(stdout) = Len(results.matched_files) + (IF args.count THEN 1 ELSE 0)
            /\ \A k \in 1..Len(results.matched_files) :
                  /\ stdout[k].file = results.matched_files[k].file
                  /\ IF args.count
                     THEN /\ stdout[k].kind = "path_count"
                          /\ stdout[k].n = results.matched_files[k].cnt
                     ELSE stdout[k].kind = "path"
            /\ args.count =>
                  stdout[Len(stdout)] = [kind |-> "number", n |-> results.match_count]
      [] mode = "CountOnly" ->
            stdout = <<[kind |-> "number", n |-> results.match_count]>>
      [] mode = "Full" ->
            /\ \A k \in 1..Len(stdout) : stdout[k].kind = "match"
            /\ stdout = results.matches

C18_OneModeByPrecedence ==
    /\ (pc = "done" /\ file_list # <<>>) => OutputOfMode(SelectedMode(args))
    /\ (Scanned /\ ~Last.error /\ HasMatch(Paragraphs(Last.file))) =>
          IF NeedsParagraphs(args)
          THEN /\ Last.tested = Len(Paragraphs(Last.file))
               /\ Last.rendered = MatchingParagraphs(Last)
          ELSE /\ Last.tested = FirstMatchPos(Paragraphs(Last.file))
               /\ Last.rendered = 0

\* -L, -l and -c together on a run that has both a matched and an unmatched file
C18_Witness ==
    /\ pc = "done"
    /\ ~args.quiet /\ args.files_without_matches /\ args.files_with_matches /\ args.count
    /\ results.matched_files # <<>>
    /\ stdout # <<>>
    /\ failures = 0

====
